---- MODULE Spec2Model ----
(***************************************************************************)
(* Model of the task state synchronizer (TaskProvider.tsx), the form that  *)
(* feeds it (TaskForm.tsx), the use cases and the local-storage adapter    *)
(* (LocalStorageTaskRepository).                                           *)
(*                                                                         *)
(* Every asynchronous handler is a chain of steps; a step runs from one    *)
(* `await` to the next without interruption (single-threaded event loop),  *)
(* and between two steps of one chain any other chain may run.  A chain    *)
(* of `return await` that touches no shared state is folded into the step  *)
(* that follows it.  The adapter reads localStorage synchronously at the   *)
(* moment it is called and consumes the value one step later.              *)
(*                                                                         *)
(* `tasks` inside a handler is the value captured by the closure when the  *)
(* handler was invoked; setTasks(prev => ...) works on the current state.  *)
(* Of the captured list a handler reads the ids and the entry of its own   *)
(* id only, and that is what field snap keeps.                             *)
(***************************************************************************)
EXTENDS Integers, Sequences, FiniteSets, TLC

\* ---------------------------------------------------------------- bounds
MaxIds    == 2    \* ids handed out by crypto.randomUUID()
MaxProcs  == 2    \* handler chains in flight at once
MaxFaults == 1    \* port calls that fail

Procs == 1..MaxProcs
IdSet == 1..MaxIds

\* ------------------------------------------------- schema constants (zod)
MinTitle       == 2
MaxTitle       == 100
MaxDescription == 500

VARIABLES
  storage,            \* localStorage['tasks'], a sequence of records
  tasks,              \* useState tasks: the cache
  loading,            \* useState loading
  error,              \* useState error ("none" is null)
  pendingOperations,  \* useRef Set of ids
  isInitialized,      \* useRef boolean
  procs,              \* the handler chains
  last,               \* what the step just taken delivered to a caller (NoCall: nothing)
  nextId,             \* next id crypto.randomUUID() returns
  faults,             \* port failures so far
  dirty,              \* per chain in its recovery refresh: what others wrote meanwhile
  port,               \* the adapter called operation by operation: store, clock, result
  view                \* one evaluation of the deadline status of a task

vars == <<storage, tasks, loading, error, pendingOperations, isInitialized,
          procs, last, nextId, faults, dirty, port, view>>

\* ------------------------------------------------------------ Task record
Task(id, completed) == [id |-> id, completed |-> completed]

\* Task.create: fresh id, completed defaults to false
Task_create(id) == Task(id, FALSE)

\* Task.toggleCompleted
toggleCompleted(t) == [t EXCEPT !.completed = ~t.completed]

Ids(s) == { s[i].id : i \in DOMAIN s }

\* Array.prototype.findIndex / find by id; 0 stands for -1 / undefined
findIndex(s, id) ==
  IF \E i \in DOMAIN s : s[i].id = id
  THEN CHOOSE i \in DOMAIN s : s[i].id = id /\ \A j \in DOMAIN s : s[j].id = id => i <= j
  ELSE 0

has(s, id) == findIndex(s, id) # 0

find(s, id) == s[findIndex(s, id)]

\* Array.prototype.filter(t => t.id !== id)
RECURSIVE filterOut(_, _)
filterOut(s, id) ==
  IF s = <<>> THEN <<>>
  ELSE IF Head(s).id = id THEN filterOut(Tail(s), id)
       ELSE <<Head(s)>> \o filterOut(Tail(s), id)

\* prev.map(t => t.id === id ? updated : t)
mapReplace(s, id, r) == [i \in DOMAIN s |-> IF s[i].id = id THEN r ELSE s[i]]

\* the completed flag of the entry with this id
flagOf(s, id) == IF has(s, id) THEN find(s, id).completed ELSE FALSE

\* ---------------------------------------------------------- chain records
NoRd   == [ok |-> FALSE, val |-> <<>>]
NoSnap == [ids |-> {}, found |-> FALSE, completed |-> FALSE]
NoTask == [id |-> 0, completed |-> FALSE]

\* the closure's `tasks` as a handler for id reads it
closure(list, id) == [ids |-> Ids(list), found |-> has(list, id), completed |-> flagOf(list, id)]

Idle == [op |-> "none", pc |-> "idle", id |-> 0, snap |-> NoSnap, rd |-> NoRd,
         found |-> FALSE, want |-> FALSE, rec |-> NoTask, cause |-> "none",
         schemaOK |-> TRUE, nUpd |-> 0, nFlip |-> 0]

\* a new chain takes the lowest free slot
Free(p) == procs[p].pc = "idle" /\ \A q \in Procs : q < p => procs[q].pc # "idle"

\* what the caller of a handler sees when it returns or throws
Ended(c, outcome) ==
  [op |-> c.op, id |-> c.id, outcome |-> outcome, cause |-> c.cause, clean |-> FALSE]

NoCall == [op |-> "none", id |-> 0, outcome |-> "none", cause |-> "none", clean |-> FALSE]

\* a port call may fail while the fault budget lasts; used counts the
\* failures already spent earlier in the same step
Outcomes(used) == IF faults + used < MaxFaults THEN {TRUE, FALSE} ELSE {TRUE}
ReadOutcomes   == Outcomes(0)
WriteOutcomes  == Outcomes(0)
Cost(ok)   == IF ok THEN 0 ELSE 1
Charge(ok) == faults' = faults + Cost(ok)

\* findAll(): the value is taken from storage when the call is made
findAll(ok) == [ok |-> ok, val |-> IF ok THEN storage ELSE <<>>]

\* safeReadStorage(): never throws
safeReadStorage == [ok |-> TRUE, val |-> storage]

\* ------------------------------------------------------------ fetchTasks
\* fetchTasks up to its await: setLoading(true); setError(null); the read
fetchTasks_call(p, ok, pc2, c) ==
  /\ loading' = TRUE
  /\ error' = "none"
  /\ procs' = [procs EXCEPT ![p] = [c EXCEPT !.pc = pc2, !.rd = findAll(ok)]]

\* fetchTasks after its await: setTasks / isInitialized, or setError; finally
fetchTasks_resume_keep(rd) ==
  /\ tasks' = tasks
  /\ isInitialized' = IF rd.ok THEN TRUE ELSE isInitialized
  /\ error' = IF rd.ok THEN error ELSE "fetch"
  /\ loading' = FALSE

fetchTasks_resume(rd) ==
  /\ tasks' = IF rd.ok THEN rd.val ELSE tasks
  /\ isInitialized' = IF rd.ok THEN TRUE ELSE isInitialized
  /\ error' = IF rd.ok THEN error ELSE "fetch"
  /\ loading' = FALSE

\* refetch() from the presentation layer
Refresh(p) ==
  /\ Free(p)
  /\ \E ok \in ReadOutcomes :
       /\ Charge(ok)
       /\ fetchTasks_call(p, ok, "f_read", [Idle EXCEPT !.op = "refresh"])
  /\ last' = NoCall
  /\ UNCHANGED <<storage, tasks, pendingOperations, isInitialized, nextId>>

RefreshDone(p) ==
  /\ procs[p].pc = "f_read"
  /\ fetchTasks_resume(procs[p].rd)
  /\ procs' = [procs EXCEPT ![p] = Idle]
  /\ last' = Ended(procs[p], "ok")
  /\ UNCHANGED <<storage, pendingOperations, nextId, faults>>

\* ---------------------------------------------------- validateConsistency
\* the comparison after the await: hasNewTasks || hasRemovedTasks
hasNewTasks(cachedIds, stored)     == \E i \in DOMAIN stored : stored[i].id \notin cachedIds
hasRemovedTasks(cachedIds, stored) == \E x \in cachedIds : x \notin Ids(stored)

inconsistent_newOnly(cachedIds, stored) == hasNewTasks(cachedIds, stored)

inconsistent(cachedIds, stored) ==
  hasNewTasks(cachedIds, stored) \/ hasRemovedTasks(cachedIds, stored)

\* whether validateConsistency resyncs: it has read storedTasks and they differ
resyncs(snap, rd) == rd.ok /\ inconsistent(snap.ids, rd.val)

validateConsistency_resume(snap, rd) ==
  tasks' = IF resyncs(snap, rd) THEN rd.val ELSE tasks

\* the periodic check: registered once initialized, runs while nothing is pending
Reconcile(p) ==
  /\ Free(p)
  /\ pendingOperations = {}
  /\ isInitialized
  /\ \E ok \in ReadOutcomes :
       /\ Charge(ok)
       /\ procs' = [procs EXCEPT ![p] = [Idle EXCEPT !.op = "reconcile", !.pc = "v_read",
                                    !.snap = closure(tasks, 0), !.rd = findAll(ok)]]
  /\ last' = NoCall
  /\ UNCHANGED <<storage, tasks, loading, error, pendingOperations, isInitialized, nextId>>

ReconcileDone(p) ==
  /\ procs[p].pc = "v_read"
  /\ validateConsistency_resume(procs[p].snap, procs[p].rd)
  /\ procs' = [procs EXCEPT ![p] = Idle]
  /\ last' = Ended([procs[p] EXCEPT !.cause =
                      IF resyncs(procs[p].snap, procs[p].rd) THEN "resync" ELSE "none"], "ok")
  /\ UNCHANGED <<storage, loading, error, pendingOperations, isInitialized, nextId, faults>>

\* ------------------------------------------------- TaskForm.handleSubmit
Dates == {[given |-> FALSE, day |-> 0]} \cup {[given |-> TRUE, day |-> d] : d \in -1..1}

\* a form input: trimmed title length, description length, pic, dates as
\* day offsets from today
Inputs == [title : {0, 1, MinTitle, MaxTitle, MaxTitle + 1},
           desc  : {0, MaxDescription, MaxDescription + 1},
           pic   : {"", "Head"},
           start : Dates,
           end   : Dates]

\* validateForm(): the first failing check, or "ok"
validateForm(i) ==
  IF i.title = 0 THEN "Title is required"
  ELSE IF i.pic = "" THEN "Person in Charge is required"
  ELSE IF ~i.start.given THEN "Start Date is required"
  ELSE IF ~i.end.given THEN "End Date is required"
  ELSE IF i.start.day > i.end.day THEN "End Date must be after Start Date"
  ELSE IF i.start.day < 0 THEN "Start Date cannot be in the past"
  ELSE "ok"

\* createTaskSchema.parse succeeds
createTaskSchema(i) ==
  /\ i.title >= 1 /\ i.title >= MinTitle /\ i.title <= MaxTitle
  /\ i.desc <= MaxDescription
  /\ i.pic \in {"Head", "Manager", "Supervisor", "Staff", "Intern"}
  /\ i.start.given /\ i.start.day >= 0
  /\ i.end.given
  /\ i.end.day >= i.start.day

\* what handleSubmit learns about the input before it calls createTask
SubmitClasses == { [form |-> validateForm(i), schema |-> createTaskSchema(i)] : i \in Inputs }

\* handleSubmit stops at a form error; a schema error is caught and the
\* original data goes on to createTask
submitCallsCreate(c) == c.form = "ok"

\* handleSubmit -> createTask -> CreateTaskUseCase.execute -> Task.create ->
\* repository.create up to its await of safeReadStorage
HandleSubmit(p) ==
  /\ Free(p)
  /\ \E c \in SubmitClasses :
       IF ~submitCallsCreate(c)
       THEN /\ last' = [NoCall EXCEPT !.op = "submit", !.outcome = "invalid"]
            /\ UNCHANGED <<storage, tasks, loading, error, pendingOperations, isInitialized,
                           procs, nextId, faults>>
       ELSE /\ nextId <= MaxIds
            /\ error' = "none"
            /\ procs' = [procs EXCEPT ![p] =
                  [Idle EXCEPT !.op = "create", !.pc = "c_read", !.id = nextId,
                               !.snap = closure(tasks, 0), !.rec = Task_create(nextId),
                               !.rd = safeReadStorage, !.schemaOK = c.schema]]
            /\ nextId' = nextId + 1
            /\ last' = NoCall
            /\ UNCHANGED <<storage, tasks, loading, pendingOperations, isInitialized, faults>>

\* repository.create after the read: duplicate check, then the write
repository_create(rd, rec, ok) ==
  IF has(rd.val, rec.id) \/ ~ok
  THEN [ok |-> FALSE, val |-> storage]
  ELSE [ok |-> TRUE, val |-> Append(rd.val, rec)]

\* createTask's catch: setError, rethrow to handleSubmit
createTask_catch_swallow(c) ==
  /\ error' = "create"
  /\ last' = Ended([c EXCEPT !.cause = "write"], "ok")

createTask_catch(c) ==
  /\ error' = "create"
  /\ last' = Ended([c EXCEPT !.cause = "write"], "threw")

CreateWrite(p) ==
  /\ procs[p].pc = "c_read"
  /\ \E ok \in WriteOutcomes :
       LET w == repository_create(procs[p].rd, procs[p].rec, ok) IN
       /\ Charge(ok)
       /\ storage' = w.val
       /\ IF w.ok
          THEN /\ procs' = [procs EXCEPT ![p] = [@ EXCEPT !.pc = "c_ret", !.rd = NoRd]]
               /\ last' = NoCall
               /\ UNCHANGED error
          ELSE /\ procs' = [procs EXCEPT ![p] = Idle]
               /\ createTask_catch(procs[p])
  /\ UNCHANGED <<tasks, loading, pendingOperations, isInitialized, nextId>>

\* createTask after the await: append, arm the 100 ms timer, return
createTask_append(prev, rec) == Append(prev, rec)

CreateAppend(p) ==
  /\ procs[p].pc = "c_ret"
  /\ tasks' = createTask_append(tasks, procs[p].rec)
  /\ last' = Ended(procs[p], "ok")
  /\ procs' = [procs EXCEPT ![p] = [@ EXCEPT !.pc = "c_timer"]]
  /\ UNCHANGED <<storage, loading, error, pendingOperations, isInitialized, nextId, faults>>

\* the timer fires validateConsistency with the closure createTask captured
CreateTimer(p) ==
  /\ procs[p].pc = "c_timer"
  /\ IF ~isInitialized
     THEN /\ procs' = [procs EXCEPT ![p] = Idle]
          /\ UNCHANGED faults
     ELSE \E ok \in ReadOutcomes :
            /\ Charge(ok)
            /\ procs' = [procs EXCEPT ![p] = [@ EXCEPT !.pc = "c_vc", !.rd = findAll(ok)]]
  /\ last' = NoCall
  /\ UNCHANGED <<storage, tasks, loading, error, pendingOperations, isInitialized, nextId>>

CreateTimerDone(p) ==
  /\ procs[p].pc = "c_vc"
  /\ validateConsistency_resume(procs[p].snap, procs[p].rd)
  /\ procs' = [procs EXCEPT ![p] = Idle]
  /\ last' = NoCall
  /\ UNCHANGED <<storage, loading, error, pendingOperations, isInitialized, nextId, faults>>

\* ------------------------------------------------------ the pending guard
\* the call returns at once, before the try block
DropCall_clearError(op, id) ==
  /\ last' = [NoCall EXCEPT !.op = op, !.id = id, !.outcome = "dropped"]
  /\ error' = "none"
  /\ UNCHANGED <<storage, tasks, loading, pendingOperations, isInitialized,
                 procs, nextId, faults>>

DropCall(op, id) ==
  /\ last' = [NoCall EXCEPT !.op = op, !.id = id, !.outcome = "dropped"]
  /\ UNCHANGED <<storage, tasks, loading, error, pendingOperations, isInitialized,
                 procs, nextId, faults>>

KnownIds == 1..(nextId - 1)

\* ------------------------------------------------------------ toggleTask
toggleTask_guard_off(id) == FALSE

toggleTask_guard(id) == id \in pendingOperations

\* catch: setError(msg), then fetchTasks() whose first statements are
\* setLoading(true) and setError(null)
toggleTask_catch(p, cause, used) ==
  \E ok \in Outcomes(used) :
     /\ faults' = faults + used + Cost(ok)
     /\ fetchTasks_call(p, ok, "t_rec",
          [procs[p] EXCEPT !.cause = cause, !.snap = NoSnap, !.found = FALSE,
                           !.want = FALSE, !.rec = NoTask])

ToggleTask(p, id) ==
  /\ Free(p)
  /\ id \in KnownIds
  /\ IF toggleTask_guard(id)
     THEN DropCall("toggle", id)
     ELSE /\ pendingOperations' = pendingOperations \cup {id}
          /\ error' = "none"
          /\ IF ~isInitialized
             THEN /\ procs' = [procs EXCEPT ![p] =
                        [Idle EXCEPT !.op = "toggle", !.pc = "t_undef", !.id = id]]
                  /\ UNCHANGED faults
             ELSE \E ok \in ReadOutcomes :
                    /\ Charge(ok)
                    /\ procs' = [procs EXCEPT ![p] =
                          [Idle EXCEPT !.op = "toggle", !.pc = "t_vc", !.id = id,
                                       !.snap = closure(tasks, id), !.rd = findAll(ok)]]
          /\ last' = NoCall
          /\ UNCHANGED <<storage, tasks, loading, isInitialized, nextId>>

\* validateConsistency returned undefined: currentTasks.find throws
ToggleUndefined(p) ==
  /\ procs[p].pc = "t_undef"
  /\ toggleTask_catch(p, "uninit", 0)
  /\ last' = NoCall
  /\ UNCHANGED <<storage, tasks, pendingOperations, isInitialized, nextId>>

\* currentTasks.find(t => t.id === id) on what validateConsistency returns:
\* storedTasks after a resync, the closure's tasks otherwise
currentTasks_find(snap, rd, id) ==
  IF resyncs(snap, rd)
  THEN [found |-> has(rd.val, id), completed |-> flagOf(rd.val, id)]
  ELSE [found |-> snap.found, completed |-> snap.completed]

\* validateConsistency after its await
ToggleVc(p) ==
  /\ procs[p].pc = "t_vc"
  /\ validateConsistency_resume(procs[p].snap, procs[p].rd)
  /\ LET t == currentTasks_find(procs[p].snap, procs[p].rd, procs[p].id) IN
     procs' = [procs EXCEPT ![p] =
        [@ EXCEPT !.pc = "t_vcret", !.rd = NoRd, !.found = t.found,
                  !.want = t.found /\ ~t.completed]]
  /\ last' = NoCall
  /\ UNCHANGED <<storage, loading, error, pendingOperations, isInitialized, nextId, faults>>

\* updateTaskUseCase.execute(id, {completed}) up to its await of findById
updateTask_call(p, want) ==
  procs' = [procs EXCEPT ![p] =
     [@ EXCEPT !.pc = "t_find", !.want = want, !.rd = safeReadStorage,
               !.snap = NoSnap, !.found = FALSE]]

\* either on to the update, or the forced refresh
ToggleLookup(p) ==
  /\ procs[p].pc = "t_vcret"
  /\ IF procs[p].found
     THEN /\ updateTask_call(p, procs[p].want)
          /\ UNCHANGED <<loading, error, faults>>
     ELSE \E ok \in ReadOutcomes :
            /\ Charge(ok)
            /\ fetchTasks_call(p, ok, "t_f1", procs[p])
  /\ last' = NoCall
  /\ UNCHANGED <<storage, tasks, pendingOperations, isInitialized, nextId>>

ToggleFetched(p) ==
  /\ procs[p].pc = "t_f1"
  /\ fetchTasks_resume(procs[p].rd)
  /\ procs' = [procs EXCEPT ![p] = [@ EXCEPT !.pc = "t_f1ret", !.rd = NoRd]]
  /\ last' = NoCall
  /\ UNCHANGED <<storage, pendingOperations, nextId, faults>>

\* getTasksUseCase.execute() after the forced refresh
ToggleReread(p) ==
  /\ procs[p].pc = "t_f1ret"
  /\ \E ok \in ReadOutcomes :
       /\ Charge(ok)
       /\ procs' = [procs EXCEPT ![p] = [@ EXCEPT !.pc = "t_get", !.rd = findAll(ok)]]
  /\ last' = NoCall
  /\ UNCHANGED <<storage, tasks, loading, error, pendingOperations, isInitialized, nextId>>

\* refreshedTasks.find, setTasks(refreshedTasks), then task || tasks.find
ToggleRetry(p) ==
  /\ procs[p].pc = "t_get"
  /\ LET c == procs[p] IN
     IF ~c.rd.ok
     THEN /\ toggleTask_catch(p, "read", 0)
          /\ UNCHANGED tasks
     ELSE IF ~has(c.rd.val, c.id)
     THEN /\ toggleTask_catch(p, "notfound", 0)
          /\ UNCHANGED tasks
     ELSE /\ tasks' = c.rd.val
          /\ IF c.snap.found
             THEN /\ updateTask_call(p, ~c.snap.completed)
                  /\ UNCHANGED <<loading, error, faults>>
             ELSE toggleTask_catch(p, "notfound", 0)
  /\ last' = NoCall
  /\ UNCHANGED <<storage, pendingOperations, isInitialized, nextId>>

\* UpdateTaskUseCase.execute after findById: not found throws; a changed
\* completed flag goes to repository.update (up to its await of the read);
\* no change returns the stored task without calling the port
ToggleFound(p) ==
  /\ procs[p].pc = "t_find"
  /\ LET c == procs[p] IN
     IF ~has(c.rd.val, c.id)
     THEN toggleTask_catch(p, "notfound", 0)
     ELSE LET t == find(c.rd.val, c.id) IN
          IF c.want # t.completed
          THEN /\ procs' = [procs EXCEPT ![p] =
                     [@ EXCEPT !.pc = "t_upd", !.rec = toggleCompleted(t),
                               !.rd = safeReadStorage, !.nUpd = @ + 1, !.want = FALSE]]
               /\ UNCHANGED <<loading, error, faults>>
          ELSE /\ procs' = [procs EXCEPT ![p] =
                     [@ EXCEPT !.pc = "t_ret", !.rec = t, !.rd = NoRd, !.want = FALSE]]
               /\ UNCHANGED <<loading, error, faults>>
  /\ last' = NoCall
  /\ UNCHANGED <<storage, tasks, pendingOperations, isInitialized, nextId>>

\* repository.update after the read: the array it read with the entry replaced
repository_update(rd, rec) == [rd.val EXCEPT ![findIndex(rd.val, rec.id)] = rec]

ToggleWrite(p) ==
  /\ procs[p].pc = "t_upd"
  /\ LET c == procs[p] IN
     IF ~has(c.rd.val, c.id)
     THEN /\ toggleTask_catch(p, "gone", 0)
          /\ UNCHANGED storage
     ELSE \E ok \in WriteOutcomes :
            IF ok
            THEN /\ storage' = repository_update(c.rd, c.rec)
                 /\ procs' = [procs EXCEPT ![p] =
                       [@ EXCEPT !.pc = "t_ret", !.rd = NoRd,
                                 !.nFlip = IF has(storage, c.id)
                                              /\ flagOf(storage, c.id) # c.rec.completed
                                           THEN @ + 1 ELSE @]]
                 /\ UNCHANGED <<loading, error, faults>>
            ELSE /\ toggleTask_catch(p, "write", 1)
                 /\ UNCHANGED storage
  /\ last' = NoCall
  /\ UNCHANGED <<tasks, pendingOperations, isInitialized, nextId>>

\* setTasks(prev => prev.map(...)), then finally
ToggleApply(p) ==
  /\ procs[p].pc = "t_ret"
  /\ tasks' = mapReplace(tasks, procs[p].id, procs[p].rec)
  /\ pendingOperations' = pendingOperations \ {procs[p].id}
  /\ procs' = [procs EXCEPT ![p] = Idle]
  /\ last' = Ended(procs[p], "ok")
  /\ UNCHANGED <<storage, loading, error, isInitialized, nextId, faults>>

\* the recovery fetchTasks after its await
ToggleRecovered(p) ==
  /\ procs[p].pc = "t_rec"
  /\ fetchTasks_resume(procs[p].rd)
  /\ procs' = [procs EXCEPT ![p] = [@ EXCEPT !.pc = "t_recret", !.rd = [@ EXCEPT !.val = <<>>]]]
  /\ last' = NoCall
  /\ UNCHANGED <<storage, pendingOperations, nextId, faults>>

\* how a handler that went through its catch block ends: the block does
\* not rethrow, the promise resolves
caught_outcome == "ok"

\* finally, after the catch block
ToggleEnd(p) ==
  /\ procs[p].pc = "t_recret"
  /\ pendingOperations' = pendingOperations \ {procs[p].id}
  /\ procs' = [procs EXCEPT ![p] = Idle]
  /\ last' = [Ended(procs[p], caught_outcome) EXCEPT
                 !.clean = procs[p].rd.ok /\ ~dirty[p].s /\ ~dirty[p].c]
  /\ UNCHANGED <<storage, tasks, loading, error, isInitialized, nextId, faults>>

\* ------------------------------------------------------------ deleteTask
deleteTask_guard_off(id) == FALSE

deleteTask_guard(id) == id \in pendingOperations

deleteTask_catch_retry(p, cause, used) ==
  IF cause = "write"
  THEN /\ faults' = faults + used
       /\ procs' = [procs EXCEPT ![p] = [@ EXCEPT !.rd = safeReadStorage, !.cause = cause]]
       /\ UNCHANGED <<loading, error>>
  ELSE \E ok \in Outcomes(used) :
         /\ faults' = faults + used + Cost(ok)
         /\ fetchTasks_call(p, ok, "d_rec", [procs[p] EXCEPT !.cause = cause, !.snap = NoSnap])

deleteTask_catch(p, cause, used) ==
  \E ok \in Outcomes(used) :
     /\ faults' = faults + used + Cost(ok)
     /\ fetchTasks_call(p, ok, "d_rec", [procs[p] EXCEPT !.cause = cause, !.snap = NoSnap])

\* DeleteTaskUseCase.execute(id): hands the id to repository.delete, which
\* reads storage before its await
deleteTaskUseCase_call(p, c) ==
  procs' = [procs EXCEPT ![p] = [c EXCEPT !.pc = "d_del", !.rd = safeReadStorage,
                                          !.snap = NoSnap]]

DeleteTask(p, id) ==
  /\ Free(p)
  /\ id \in KnownIds
  /\ IF deleteTask_guard(id)
     THEN DropCall("delete", id)
     ELSE /\ pendingOperations' = pendingOperations \cup {id}
          /\ IF has(tasks, id)
             THEN /\ deleteTaskUseCase_call(p, [Idle EXCEPT !.op = "delete", !.id = id])
                  /\ error' = "none"
                  /\ UNCHANGED <<loading, faults>>
             ELSE \E ok \in ReadOutcomes :
                    /\ Charge(ok)
                    /\ fetchTasks_call(p, ok, "d_f1",
                         [Idle EXCEPT !.op = "delete", !.id = id, !.snap = closure(tasks, id)])
          /\ last' = NoCall
          /\ UNCHANGED <<storage, tasks, isInitialized, nextId>>

DeleteFetched(p) ==
  /\ procs[p].pc = "d_f1"
  /\ fetchTasks_resume(procs[p].rd)
  /\ procs' = [procs EXCEPT ![p] = [@ EXCEPT !.pc = "d_f1ret", !.rd = NoRd]]
  /\ last' = NoCall
  /\ UNCHANGED <<storage, pendingOperations, nextId, faults>>

\* tasks.find on the closure's list again
DeleteRetry(p) ==
  /\ procs[p].pc = "d_f1ret"
  /\ IF procs[p].snap.found
     THEN /\ deleteTaskUseCase_call(p, procs[p])
          /\ UNCHANGED <<loading, error, faults>>
     ELSE deleteTask_catch(p, "notfound", 0)
  /\ last' = NoCall
  /\ UNCHANGED <<storage, tasks, pendingOperations, isInitialized, nextId>>

\* repository.delete after the read
repository_delete(rd, id) == filterOut(rd.val, id)

DeleteWrite(p) ==
  /\ procs[p].pc = "d_del"
  /\ LET c == procs[p] IN
     IF ~has(c.rd.val, c.id)
     THEN /\ deleteTask_catch(p, "gone", 0)
          /\ UNCHANGED storage
     ELSE \E ok \in WriteOutcomes :
            IF ok
            THEN /\ storage' = repository_delete(c.rd, c.id)
                 /\ procs' = [procs EXCEPT ![p] = [@ EXCEPT !.pc = "d_ret", !.rd = NoRd]]
                 /\ UNCHANGED <<loading, error, faults>>
            ELSE /\ deleteTask_catch(p, "write", 1)
                 /\ UNCHANGED storage
  /\ last' = NoCall
  /\ UNCHANGED <<tasks, pendingOperations, isInitialized, nextId>>

\* setTasks(prev => prev.filter(...)), then finally
DeleteApply(p) ==
  /\ procs[p].pc = "d_ret"
  /\ tasks' = filterOut(tasks, procs[p].id)
  /\ pendingOperations' = pendingOperations \ {procs[p].id}
  /\ procs' = [procs EXCEPT ![p] = Idle]
  /\ last' = Ended(procs[p], "ok")
  /\ UNCHANGED <<storage, loading, error, isInitialized, nextId, faults>>

DeleteRecovered(p) ==
  /\ procs[p].pc = "d_rec"
  /\ fetchTasks_resume(procs[p].rd)
  /\ procs' = [procs EXCEPT ![p] = [@ EXCEPT !.pc = "d_recret", !.rd = [@ EXCEPT !.val = <<>>]]]
  /\ last' = NoCall
  /\ UNCHANGED <<storage, pendingOperations, nextId, faults>>

\* finally: pendingOperations.current.delete(id)
DeleteEnd_keep(p) ==
  /\ procs[p].pc = "d_recret"
  /\ procs' = [procs EXCEPT ![p] = Idle]
  /\ last' = [Ended(procs[p], caught_outcome) EXCEPT
                 !.clean = procs[p].rd.ok /\ ~dirty[p].s /\ ~dirty[p].c]
  /\ UNCHANGED <<storage, tasks, loading, error, pendingOperations, isInitialized, nextId, faults>>

DeleteEnd(p) ==
  /\ procs[p].pc = "d_recret"
  /\ pendingOperations' = pendingOperations \ {procs[p].id}
  /\ procs' = [procs EXCEPT ![p] = Idle]
  /\ last' = [Ended(procs[p], caught_outcome) EXCEPT
                 !.clean = procs[p].rd.ok /\ ~dirty[p].s /\ ~dirty[p].c]
  /\ UNCHANGED <<storage, tasks, loading, error, isInitialized, nextId, faults>>

\* the effect that clears the error after five seconds
ClearError ==
  /\ error # "none"
  /\ error' = "none"
  /\ last' = NoCall
  /\ UNCHANGED <<storage, tasks, loading, pendingOperations, isInitialized, procs,
                 nextId, faults>>

\* ------------------------------------------------ idle port and view
Undefined == "undefined"

\* new Task(...): the entity with all its fields; dates are clock readings
NewTask(id, title, description, completed, createdAt, updatedAt, pic, startDate, endDate) ==
  [id |-> id, title |-> title, description |-> description, completed |-> completed,
   createdAt |-> createdAt, updatedAt |-> updatedAt,
   pic |-> pic, startDate |-> startDate, endDate |-> endDate]

\* stands for null / no task
NoObj == NewTask(0, "", "", FALSE, 0, 0, Undefined, Undefined, Undefined)

NoRet == [op |-> "none", id |-> 0, err |-> "none", val |-> NoObj]

NoPort == [store |-> <<>>, now |-> 0, ret |-> NoRet, held |-> NoObj, x |-> NoObj,
           all |-> <<>>]

\* a badge { type, text } with the number its text carries; null; no call yet
Badge(type, text, n) == [type |-> type, text |-> text, n |-> n]

Null == Badge("null", "", 0)

NotCalled == Badge("notcalled", "", 0)

NoView == [completed |-> FALSE, endDate |-> [kind |-> "absent", day |-> 0],
           now |-> 0, tz |-> 0, info |-> NotCalled, status |-> NotCalled]

\* --------------------------------------------------------------- history
Clean == [s |-> FALSE, c |-> FALSE]

\* for a chain between its recovery read and its end: s, storage has been
\* written since the read; c, another chain has changed the cache since the
\* recovery refresh set it
Track ==
  /\ dirty' = [q \in Procs |->
        IF procs'[q].pc \in {"t_rec", "t_recret", "d_rec", "d_recret"}
        THEN [s |-> /\ procs[q].pc \in {"t_rec", "t_recret", "d_rec", "d_recret"}
                    /\ (dirty[q].s \/ storage' # storage),
              c |-> /\ procs[q].pc \in {"t_recret", "d_recret"}
                    /\ (dirty[q].c \/ (procs'[q] = procs[q] /\ tasks' # tasks))]
        ELSE Clean]
  /\ UNCHANGED <<port, view>>

\* ------------------------------------------------------------------ Init
\* what a previous session may have left under the storage key
InitStorages == { <<>>, <<Task(1, FALSE)>> }

\* the provider is mounted and the mount effect has called fetchTasks()
Init ==
  /\ storage \in InitStorages
  /\ tasks = <<>>
  /\ loading = TRUE
  /\ error = "none"
  /\ pendingOperations = {}
  /\ isInitialized = FALSE
  /\ last = NoCall
  /\ dirty = [q \in Procs |-> Clean]
  /\ port = NoPort
  /\ view = NoView
  /\ nextId = Len(storage) + 1
  /\ \E ok \in BOOLEAN :
       /\ (~ok => MaxFaults > 0)
       /\ faults = Cost(ok)
       /\ procs = [p \in Procs |->
             IF p = 1 THEN [Idle EXCEPT !.op = "refresh", !.pc = "f_read",
                                        !.rd = [ok |-> ok, val |-> IF ok THEN storage ELSE <<>>]]
             ELSE Idle]

Next ==
  \/ \E p \in Procs : Refresh(p) /\ Track
  \/ \E p \in Procs : RefreshDone(p) /\ Track
  \/ \E p \in Procs : Reconcile(p) /\ Track
  \/ \E p \in Procs : ReconcileDone(p) /\ Track
  \/ \E p \in Procs : HandleSubmit(p) /\ Track
  \/ \E p \in Procs : CreateWrite(p) /\ Track
  \/ \E p \in Procs : CreateAppend(p) /\ Track
  \/ \E p \in Procs : CreateTimer(p) /\ Track
  \/ \E p \in Procs : CreateTimerDone(p) /\ Track
  \/ \E p \in Procs, id \in IdSet : ToggleTask(p, id) /\ Track
  \/ \E p \in Procs : ToggleUndefined(p) /\ Track
  \/ \E p \in Procs : ToggleVc(p) /\ Track
  \/ \E p \in Procs : ToggleLookup(p) /\ Track
  \/ \E p \in Procs : ToggleFetched(p) /\ Track
  \/ \E p \in Procs : ToggleReread(p) /\ Track
  \/ \E p \in Procs : ToggleRetry(p) /\ Track
  \/ \E p \in Procs : ToggleFound(p) /\ Track
  \/ \E p \in Procs : ToggleWrite(p) /\ Track
  \/ \E p \in Procs : ToggleApply(p) /\ Track
  \/ \E p \in Procs : ToggleRecovered(p) /\ Track
  \/ \E p \in Procs : ToggleEnd(p) /\ Track
  \/ \E p \in Procs, id \in IdSet : DeleteTask(p, id) /\ Track
  \/ \E p \in Procs : DeleteFetched(p) /\ Track
  \/ \E p \in Procs : DeleteRetry(p) /\ Track
  \/ \E p \in Procs : DeleteWrite(p) /\ Track
  \/ \E p \in Procs : DeleteApply(p) /\ Track
  \/ \E p \in Procs : DeleteRecovered(p) /\ Track
  \/ \E p \in Procs : DeleteEnd(p) /\ Track
  \/ ClearError /\ Track

Spec == Init /\ [][Next]_vars

\* ------------------------------------- toggles and deletes to their end
\* The provider with stored records and no form: refetch, toggleTask and
\* deleteTask, whose suspended handlers the event loop always resumes.
GuardStorages == { <<Task(1, FALSE)>>, <<Task(1, TRUE)>> }

GuardInit ==
  /\ storage \in GuardStorages
  /\ tasks = <<>>
  /\ loading = TRUE
  /\ error = "none"
  /\ pendingOperations = {}
  /\ isInitialized = FALSE
  /\ last = NoCall
  /\ dirty = [q \in Procs |-> Clean]
  /\ port = NoPort
  /\ view = NoView
  /\ nextId = Len(storage) + 1
  /\ \E ok \in BOOLEAN :
       /\ (~ok => MaxFaults > 0)
       /\ faults = Cost(ok)
       /\ procs = [p \in Procs |->
             IF p = 1 THEN [Idle EXCEPT !.op = "refresh", !.pc = "f_read",
                                        !.rd = [ok |-> ok, val |-> IF ok THEN storage ELSE <<>>]]
             ELSE Idle]

\* the steps that resume a suspended handler: every settled promise runs
Resume(p) ==
  \/ RefreshDone(p)
  \/ ToggleUndefined(p) \/ ToggleVc(p) \/ ToggleLookup(p) \/ ToggleFetched(p)
  \/ ToggleReread(p) \/ ToggleRetry(p) \/ ToggleFound(p) \/ ToggleWrite(p)
  \/ ToggleApply(p) \/ ToggleRecovered(p) \/ ToggleEnd(p)
  \/ DeleteFetched(p) \/ DeleteRetry(p) \/ DeleteWrite(p) \/ DeleteApply(p)
  \/ DeleteRecovered(p) \/ DeleteEnd(p)

GuardNext ==
  \/ \E p \in Procs : Refresh(p) /\ Track
  \/ \E p \in Procs : RefreshDone(p) /\ Track
  \/ \E p \in Procs, id \in IdSet : ToggleTask(p, id) /\ Track
  \/ \E p \in Procs : ToggleUndefined(p) /\ Track
  \/ \E p \in Procs : ToggleVc(p) /\ Track
  \/ \E p \in Procs : ToggleLookup(p) /\ Track
  \/ \E p \in Procs : ToggleFetched(p) /\ Track
  \/ \E p \in Procs : ToggleReread(p) /\ Track
  \/ \E p \in Procs : ToggleRetry(p) /\ Track
  \/ \E p \in Procs : ToggleFound(p) /\ Track
  \/ \E p \in Procs : ToggleWrite(p) /\ Track
  \/ \E p \in Procs : ToggleApply(p) /\ Track
  \/ \E p \in Procs : ToggleRecovered(p) /\ Track
  \/ \E p \in Procs : ToggleEnd(p) /\ Track
  \/ \E p \in Procs, id \in IdSet : DeleteTask(p, id) /\ Track
  \/ \E p \in Procs : DeleteFetched(p) /\ Track
  \/ \E p \in Procs : DeleteRetry(p) /\ Track
  \/ \E p \in Procs : DeleteWrite(p) /\ Track
  \/ \E p \in Procs : DeleteApply(p) /\ Track
  \/ \E p \in Procs : DeleteRecovered(p) /\ Track
  \/ \E p \in Procs : DeleteEnd(p) /\ Track

GuardSpec ==
  GuardInit /\ [][GuardNext]_vars /\ \A p \in Procs : WF_vars(Resume(p) /\ Track)

\* ============================================ the port, call by call
\* The adapter and the use cases with full records, one call at a time
\* (every call runs to completion before the next one starts).
MaxClock == 1    \* readings of new Date()

\* the synchronizer stays as it is while the port is exercised alone
syncVars == <<storage, tasks, loading, error, pendingOperations, isInitialized,
              procs, last, nextId, faults, dirty>>

Quiet ==
  /\ storage = <<>> /\ tasks = <<>> /\ loading = FALSE /\ error = "none"
  /\ pendingOperations = {} /\ isInitialized = FALSE
  /\ procs = [p \in Procs |-> Idle] /\ last = NoCall /\ nextId = 1 /\ faults = 0
  /\ dirty = [q \in Procs |-> Clean]

\* Date.prototype.toISOString and new Date(isoString)
toISOString(d) == <<"iso", d>>
Date_new(s) == s[2]

\* what the form or a caller hands to createTask
CreateData ==
  { [title |-> "a", description |-> "d", pic |-> "Head",
     startDate |-> "2024-06-10", endDate |-> "2024-06-11"],
    [title |-> "b", description |-> Undefined, pic |-> Undefined,
     startDate |-> Undefined, endDate |-> Undefined] }

\* Task.create(data) with id from crypto.randomUUID() and now = new Date()
Task_createAt(id, data, now) ==
  NewTask(id, data.title,
          IF data.description \in {Undefined, ""} THEN "" ELSE data.description,
          FALSE, now, now, data.pic, data.startDate, data.endDate)

\* Task.toJSON
toJSON(t) ==
  [id |-> t.id, title |-> t.title, description |-> t.description,
   completed |-> t.completed,
   createdAt |-> toISOString(t.createdAt), updatedAt |-> toISOString(t.updatedAt),
   pic |-> t.pic, startDate |-> t.startDate, endDate |-> t.endDate]

\* JSON.stringify then JSON.parse of one item: keys holding undefined are gone
OptionalKeys == {"pic", "startDate", "endDate"}

JSON_stringify(item) ==
  [k \in DOMAIN item \ {k \in OptionalKeys : item[k] = Undefined} |-> item[k]]

\* item.key of a parsed item
get(item, k) == IF k \in DOMAIN item THEN item[k] ELSE Undefined

\* createTaskFromData(item)
createTaskFromData_noExtras(item) ==
  NewTask(item.id, item.title,
          IF get(item, "description") \in {Undefined, ""} THEN "" ELSE item.description,
          item.completed, Date_new(item.createdAt), Date_new(item.updatedAt),
          Undefined, Undefined, Undefined)

createTaskFromData(item) ==
  NewTask(item.id, item.title,
          IF get(item, "description") \in {Undefined, ""} THEN "" ELSE item.description,
          item.completed, Date_new(item.createdAt), Date_new(item.updatedAt),
          get(item, "pic"), get(item, "startDate"), get(item, "endDate"))

\* safeReadStorage's filter: id, title and a boolean completed are required
isValidItem(item) == item.id # 0 /\ item.title # "" /\ item.completed \in BOOLEAN

\* the entries safeReadStorage keeps
validatedTasks(data) == SelectSeq(data, isValidItem)

\* safeReadStorage: what it returns, which is also what it leaves in
\* storage. When it had to drop entries it writes the kept ones back with
\* safeWriteStorage inside its own try block; `heal` is whether that
\* setItem succeeds. When it throws, the catch block removes the key and
\* returns [].
port_safeReadStorage(data, heal) ==
  IF Len(validatedTasks(data)) = Len(data) THEN data
  ELSE IF heal THEN validatedTasks(data)
  ELSE <<>>

\* repository.findAll()
port_findAll(store, heal) ==
  LET data == port_safeReadStorage(store, heal) IN
  [store |-> data, err |-> "none",
   val |-> [i \in DOMAIN data |-> createTaskFromData(data[i])]]

\* repository.findById(id)
port_findById(store, id, heal) ==
  LET data == port_safeReadStorage(store, heal) IN
  [store |-> data, err |-> "none",
   val |-> IF has(data, id) THEN createTaskFromData(find(data, id)) ELSE NoObj]

\* repository.create(task)
port_create(store, task, ok, heal) ==
  LET data == port_safeReadStorage(store, heal)
      w == repository_create([ok |-> TRUE, val |-> data], JSON_stringify(toJSON(task)), ok)
  IN IF w.ok
     THEN [store |-> w.val, err |-> "none", val |-> task]
     ELSE [store |-> data, err |-> IF has(data, task.id) THEN "duplicate" ELSE "write",
           val |-> NoObj]

\* repository.update(task)
port_update_append(store, task, ok, heal) ==
  LET data == port_safeReadStorage(store, heal) IN
  IF findIndex(data, task.id) = 0
  THEN [store |-> data, err |-> "notfound", val |-> NoObj]
  ELSE IF ~ok
  THEN [store |-> data, err |-> "write", val |-> NoObj]
  ELSE [store |-> Append(filterOut(data, task.id), JSON_stringify(toJSON(task))),
        err |-> "none", val |-> task]

port_update(store, task, ok, heal) ==
  LET data == port_safeReadStorage(store, heal) IN
  IF findIndex(data, task.id) = 0
  THEN [store |-> data, err |-> "notfound", val |-> NoObj]
  ELSE IF ~ok
  THEN [store |-> data, err |-> "write", val |-> NoObj]
  ELSE [store |-> repository_update([ok |-> TRUE, val |-> data], JSON_stringify(toJSON(task))),
        err |-> "none", val |-> task]

\* repository.delete(id)
port_delete(store, id, ok, heal) ==
  LET data == port_safeReadStorage(store, heal) IN
  IF ~has(data, id)
  THEN [store |-> data, err |-> "notfound", val |-> NoObj]
  ELSE IF ~ok
  THEN [store |-> data, err |-> "write", val |-> NoObj]
  ELSE [store |-> repository_delete([ok |-> TRUE, val |-> data], id),
        err |-> "none", val |-> NoObj]

\* ---------------------------------------------------------- port calls
MaxPortIds == 2  \* ids crypto.randomUUID() can return
PortIds == 1..MaxPortIds

\* Task.toggleCompleted / updateTitle / the direct field writes of the
\* update use case: the field, and updatedAt = new Date()
stamp_createdAt(t, now) == [t EXCEPT !.createdAt = now]

stamp(t, now) == [t EXCEPT !.updatedAt = now]

\* what callers pass to UpdateTaskUseCase.execute; "undefined" is a key
\* that was not given
NoParams == [title |-> Undefined, completed |-> Undefined, endDate |-> Undefined]

UpdateParams ==
  { NoParams,
    [NoParams EXCEPT !.completed = "true"],
    [NoParams EXCEPT !.completed = "false"],
    [NoParams EXCEPT !.endDate = "2024-06-12"] }

boolOf(s) == s = "true"

\* UpdateTaskUseCase.execute between findById and repository.update:
\* the copy with every given and differing field applied
UpdateTaskUseCase_apply_recreated(task, params, now) ==
  LET t0 == [task EXCEPT !.createdAt = now]
      t1 == IF params.title # Undefined /\ params.title # t0.title
            THEN stamp([t0 EXCEPT !.title = params.title], now) ELSE t0
      t2 == IF params.completed # Undefined /\ boolOf(params.completed) # t1.completed
            THEN stamp(toggleCompleted(t1), now) ELSE t1
      t3 == IF params.endDate # Undefined /\ params.endDate # t2.endDate
            THEN stamp([t2 EXCEPT !.endDate = params.endDate], now) ELSE t2
  IN t3

UpdateTaskUseCase_apply(task, params, now) ==
  LET t1 == IF params.title # Undefined /\ params.title # task.title
            THEN stamp([task EXCEPT !.title = params.title], now) ELSE task
      t2 == IF params.completed # Undefined /\ boolOf(params.completed) # t1.completed
            THEN stamp(toggleCompleted(t1), now) ELSE t1
      t3 == IF params.endDate # Undefined /\ params.endDate # t2.endDate
            THEN stamp([t2 EXCEPT !.endDate = params.endDate], now) ELSE t2
  IN t3

hasChanges(task, params, now) == UpdateTaskUseCase_apply(task, params, now) # task

Ret(op, id, r) == [op |-> op, id |-> id, err |-> r.err, val |-> r.val]

\* CreateTaskUseCase.execute(data): Task.create, then repository.create
PortCreate ==
  \E id \in PortIds, data \in CreateData, ok \in BOOLEAN, heal \in BOOLEAN :
    LET task == Task_createAt(id, data, port.now)
        r == port_create(port.store, task, ok, heal)
    IN port' = [port EXCEPT !.all = <<>>, !.store = r.store, !.ret = Ret("create", id, r),
                            !.x = r.val]

\* repository.findAll(); `all` is the list it returned, until the next call
PortFindAll ==
  \E heal \in BOOLEAN :
    LET r == port_findAll(port.store, heal)
    IN port' = [port EXCEPT !.store = r.store,
                            !.ret = [op |-> "findAll", id |-> 0, err |-> r.err,
                                     val |-> NoObj],
                            !.all = r.val]

\* repository.findById(id); the caller keeps the result
PortFindById ==
  \E id \in PortIds, heal \in BOOLEAN :
    LET r == port_findById(port.store, id, heal)
    IN port' = [port EXCEPT !.all = <<>>, !.store = r.store, !.ret = Ret("findById", id, r),
                            !.held = r.val]

\* UpdateTaskUseCase.execute after its findById has resolved with `held`
PortUpdate ==
  \E params \in UpdateParams, ok \in BOOLEAN, heal \in BOOLEAN :
    LET task == port.held
        taskToUpdate == UpdateTaskUseCase_apply(task, params, port.now)
        r == port_update(port.store, taskToUpdate, ok, heal)
    IN IF task = NoObj
       THEN port' = [port EXCEPT !.all = <<>>, !.ret = [op |-> "execute", id |-> 0,
                                          err |-> "notfound", val |-> NoObj],
                                 !.x = NoObj]
       ELSE IF ~hasChanges(task, params, port.now)
       THEN port' = [port EXCEPT !.all = <<>>, !.ret = [op |-> "execute", id |-> task.id,
                                          err |-> "none", val |-> task],
                                 !.x = NoObj]
       ELSE port' = [port EXCEPT !.all = <<>>, !.store = r.store, !.ret = Ret("update", task.id, r),
                                 !.held = IF r.err = "none" THEN r.val ELSE NoObj,
                                 !.x = NoObj]

\* repository.delete(id)
PortDelete ==
  \E id \in PortIds, ok \in BOOLEAN, heal \in BOOLEAN :
    LET r == port_delete(port.store, id, ok, heal)
    IN port' = [port EXCEPT !.all = <<>>, !.store = r.store, !.ret = Ret("delete", id, r),
                            !.x = NoObj]

\* time passes between two calls
Tick ==
  /\ port.now < MaxClock
  /\ port' = [port EXCEPT !.all = <<>>, !.now = port.now + 1, !.ret = NoRet]

\* entries found in localStorage at start: one that lacks a title (left by
\* an older build) and one valid record
Leftover == [id |-> 9, title |-> "", description |-> "", completed |-> FALSE,
             createdAt |-> toISOString(0), updatedAt |-> toISOString(0)]

Stored1 == JSON_stringify(toJSON(NewTask(1, "a", "", FALSE, 0, 0, "Head", Undefined, "2024-06-11")))

PortStores == { <<>>, <<Leftover>>, <<Stored1>>, <<Leftover, Stored1>> }

PortInit ==
  /\ Quiet
  /\ view = NoView
  /\ \E st \in PortStores : port = [NoPort EXCEPT !.store = st]

PortNext ==
  \/ PortCreate /\ UNCHANGED syncVars /\ UNCHANGED view
  \/ PortFindAll /\ UNCHANGED syncVars /\ UNCHANGED view
  \/ PortFindById /\ UNCHANGED syncVars /\ UNCHANGED view
  \/ PortUpdate /\ UNCHANGED syncVars /\ UNCHANGED view
  \/ PortDelete /\ UNCHANGED syncVars /\ UNCHANGED view
  \/ Tick /\ UNCHANGED syncVars /\ UNCHANGED view

PortSpec == PortInit /\ [][PortNext]_vars

\* ================================================ deadline derivation
\* Time is counted in hours since the epoch, in UTC; a calendar date
\* 'YYYY-MM-DD' is its day number.
MaxDay == 12       \* end dates 0..MaxDay
MaxNowDay == 3     \* the clock reads a time of UTC day 2..MaxNowDay
HoursPerDay == 24

\* UTC offsets of the browser's time zone, in hours: New York, UTC, Jakarta
TimeZones == {-5, 0, 7}

\* task.endDate: absent, a string Date cannot parse, or 'YYYY-MM-DD'
EndDates ==
  {[kind |-> "absent", day |-> 0], [kind |-> "invalid", day |-> 0]}
    \cup {[kind |-> "valid", day |-> d] : d \in 0..MaxDay}

Nows == {d * HoursPerDay + h : d \in 2..MaxNowDay, h \in 0..(HoursPerDay - 1)}

\* new Date('YYYY-MM-DD'): midnight UTC of that day
Date_parse(e) == e.day * HoursPerDay

\* date.setHours(0, 0, 0, 0): midnight of the same day in local time
setHours0(t, tz) == ((t + tz) \div HoursPerDay) * HoursPerDay - tz

\* Math.ceil(diffTime / (1000 * 60 * 60 * 24))
ceilDays(diff) == -((-diff) \div HoursPerDay)

daysRemainingOf(v) ==
  ceilDays(setHours0(Date_parse(v.endDate), v.tz) - setHours0(v.now, v.tz))

\* taskStatusUtils.getDeadlineInfo(task).status, null when it returns null
getDeadlineInfo(v) ==
  IF v.endDate.kind = "absent" THEN Null
  ELSE IF v.endDate.kind = "invalid" THEN Null
  ELSE LET daysRemaining == daysRemainingOf(v) IN
       IF v.completed THEN Badge("success", "Completed", 0)
       ELSE IF daysRemaining < 0
         THEN IF -daysRemaining = 1 THEN Badge("danger", "Overdue by 1 day", 1)
              ELSE Badge("danger", "Overdue by N days", -daysRemaining)
       ELSE IF daysRemaining = 0 THEN Badge("warning", "Due today", 0)
       ELSE IF daysRemaining = 1 THEN Badge("warning", "Due tomorrow", 1)
       ELSE IF daysRemaining <= 3 THEN Badge("warning", "Due in N days", daysRemaining)
       ELSE IF daysRemaining <= 7 THEN Badge("info", "N days remaining", daysRemaining)
       ELSE Badge("secondary", "N days remaining", daysRemaining)

\* TaskItem's getDeadlineStatus()
getDeadlineStatus(v) ==
  IF v.endDate.kind = "absent" THEN Null
  ELSE IF v.endDate.kind = "invalid" THEN Badge("warning", "Invalid date", 0)
  ELSE LET diffDays == daysRemainingOf(v) IN
       IF v.completed THEN Badge("success", "Completed", 0)
       ELSE IF diffDays < 0
         THEN IF -diffDays = 1 THEN Badge("danger", "1 day overdue", 1)
              ELSE Badge("danger", "N days overdue", -diffDays)
       ELSE IF diffDays = 0 THEN Badge("warning", "Due today", 0)
       ELSE IF diffDays <= 3
         THEN IF diffDays = 1 THEN Badge("warning", "Due tomorrow", 1)
              ELSE Badge("warning", "Due in N days", diffDays)
       ELSE Badge("info", "Due in N days", diffDays)

\* the statistics call getDeadlineInfo(task)
GetDeadlineInfo ==
  /\ view.info = NotCalled
  /\ view' = [view EXCEPT !.info = getDeadlineInfo(view)]

\* TaskItem renders and calls getDeadlineStatus()
GetDeadlineStatus ==
  /\ view.status = NotCalled
  /\ view' = [view EXCEPT !.status = getDeadlineStatus(view)]

DeadlineInit ==
  /\ Quiet
  /\ port = NoPort
  /\ \E c \in BOOLEAN, e \in EndDates, now \in Nows, tz \in TimeZones :
       view = [NoView EXCEPT !.completed = c, !.endDate = e, !.now = now, !.tz = tz]

DeadlineNext ==
  \/ GetDeadlineInfo /\ UNCHANGED syncVars /\ UNCHANGED port
  \/ GetDeadlineStatus /\ UNCHANGED syncVars /\ UNCHANGED port

DeadlineSpec == DeadlineInit /\ [][DeadlineNext]_vars

\* ================================================================ claims
Failed(c) == c.op \in {"toggle", "delete"} /\ c.cause # "none"

\* C1: a toggleTask(id) invoked while id is in pendingOperations returns
\* without any port call and starts nothing; over the pending call and the
\* dropped one the port update is called at most once and the stored
\* completed flag changes at most once.
C1_DoubleToggle ==
  /\ [](\A p \in Procs : procs[p].op = "toggle" =>
          /\ procs[p].nUpd <= 1
          /\ procs[p].nFlip <= 1
          /\ \A q \in Procs \ {p} : procs[q].op = "toggle" => procs[q].id # procs[p].id)
  /\ [][\A p \in Procs : procs[p].pc = "idle" /\ procs'[p].op = "toggle"
           => procs'[p].id \notin pendingOperations]_vars
  /\ [][last'.op = "toggle" /\ last'.outcome = "dropped"
           => /\ last'.id \in pendingOperations
              /\ UNCHANGED <<storage, tasks, procs, faults, pendingOperations>>]_vars

C1_Witness ==
  /\ last.op = "toggle" /\ last.outcome = "dropped"
  /\ \E p \in Procs : /\ procs[p].op = "toggle" /\ procs[p].id = last.id
                      /\ procs[p].pc = "t_ret"
                      /\ procs[p].nUpd = 1 /\ procs[p].nFlip = 1

\* C2 (as stated): no two records of the cache share an id.
C2_UniqueCacheIds ==
  \A i, j \in DOMAIN tasks : i # j => tasks[i].id # tasks[j].id

C5_Rethrown ==
  Failed(last) => last.outcome = "threw"

\* C6 (as stated): when a toggleTask or deleteTask that failed completes,
\* error holds the message of that failure.
C6_LastErrorSet ==
  Failed(last) => error = (IF last.op = "toggle" THEN "update" ELSE "delete")

\* C7 (as stated): a write the adapter has acknowledged to a chain is in
\* storage when that chain resumes, whatever other port operation was in
\* flight on another record.
C7_NoLostWrite ==
  \A p \in Procs :
     /\ procs[p].pc = "c_ret" => has(storage, procs[p].id)
     /\ procs[p].pc = "t_ret" /\ procs[p].nUpd = 1
          => has(storage, procs[p].id) /\ find(storage, procs[p].id) = procs[p].rec
     /\ procs[p].pc = "d_ret" => ~has(storage, procs[p].id)

\* C8: at most one toggleTask or deleteTask is in flight per id and its id is
\* in pendingOperations; a call of either kind for an id in pendingOperations
\* starts nothing.
C8_OnePerId ==
  /\ [](\A p \in Procs : procs[p].op \in {"toggle", "delete"} =>
          /\ procs[p].id \in pendingOperations
          /\ \A q \in Procs \ {p} :
                procs[q].op \in {"toggle", "delete"} => procs[q].id # procs[p].id)
  /\ [][\A p \in Procs :
          procs[p].pc = "idle" /\ procs'[p].op \in {"toggle", "delete"}
            => procs'[p].id \notin pendingOperations]_vars

C8_Witness ==
  /\ last.op = "delete" /\ last.outcome = "dropped"
  /\ \E p \in Procs : procs[p].op = "toggle" /\ procs[p].id = last.id

\* C9: when repository.create fails, no step of that createTask has changed
\* the cache, createTask throws and error is set.
C9_CreateFailure ==
  /\ [][\A p \in Procs :
          /\ procs[p].pc = "idle" /\ procs'[p].op = "create" => tasks' = tasks
          /\ procs[p].pc = "c_read" /\ procs'[p].pc = "idle"
               => /\ tasks' = tasks
                  /\ last'.op = "create" /\ last'.outcome = "threw"
                  /\ error' = "create"]_vars
  /\ [](last.op = "create" /\ last.outcome = "threw" => ~has(tasks, last.id))

C9_Witness ==
  /\ last.op = "create" /\ last.outcome = "threw"
  /\ tasks # <<>>
  /\ tasks = storage

\* C10 (as stated): an input createTaskSchema rejects never reaches
\* repository.create.
C10_NoCreateWhenInvalid ==
  \A p \in Procs : procs[p].op = "create" => procs[p].schemaOK


\* ------------------------------------------------------- port contract
\* the stored records a read returns: safeReadStorage drops entries that
\* lack an id, a title or a boolean completed
Records(store) == validatedTasks(store)

UniqueIds(s) == Cardinality(Ids(s)) = Len(s)

\* C12: a port create of a record whose id is already stored fails with
\* the duplicate-id error and leaves the stored records as they were;
\* otherwise, unless the write itself fails, it appends the record, and
\* returns the record that is now stored; stored ids stay unique.
C12_Create ==
  /\ [][port'.ret.op = "create" =>
          LET old == Records(port.store)
              new == port'.store
          IN IF has(old, port'.ret.id)
             THEN port'.ret.err = "duplicate" /\ new = old
             ELSE \/ port'.ret.err = "write" /\ new = old
                  \/ /\ port'.ret.err = "none"
                     /\ Len(new) = Len(old) + 1
                     /\ SubSeq(new, 1, Len(old)) = old
                     /\ new[Len(new)] = JSON_stringify(toJSON(port'.ret.val))
                     /\ port'.ret.val.id = port'.ret.id
                     /\ createTaskFromData(new[Len(new)]) = port'.ret.val]_vars
  /\ [](UniqueIds(Records(port.store)))

C14_Delete ==
  [][port'.ret.op = "delete" =>
       LET old == Records(port.store)
           new == port'.store
           id == port'.ret.id
           k == findIndex(old, id)
       IN IF ~has(old, id)
          THEN port'.ret.err = "notfound" /\ new = old
          ELSE \/ port'.ret.err = "write" /\ new = old
               \/ /\ port'.ret.err = "none"
                  /\ Len(new) = Len(old) - 1
                  /\ ~has(new, id)
                  /\ \A i \in DOMAIN new :
                       new[i] = IF i < k THEN old[i] ELSE old[i + 1]]_vars

\* C15: findById does not fail for a missing id: for an id that is not
\* stored it returns null, for a stored id it returns the one record with
\* that id, and the stored records are as they were.
C15_FindById ==
  [][port'.ret.op = "findById" =>
       LET old == Records(port.store)
           id == port'.ret.id
       IN /\ port'.ret.err = "none"
          /\ port'.store = old
          /\ IF has(old, id)
             THEN /\ port'.ret.val.id = id
                  /\ JSON_stringify(toJSON(port'.ret.val)) = find(old, id)
                  /\ Cardinality({i \in DOMAIN old : old[i].id = id}) = 1
             ELSE port'.ret.val = NoObj]_vars

\* the records the provider holds after a call: what the call returned,
\* what findById handed out, what create was given
Handed == {port.ret.val, port.held, port.x} \ {NoObj}

\* C16: with a clock that does not go back, every stored record and every
\* record handed to the caller has updatedAt >= createdAt; a created
\* record has createdAt = updatedAt = the time of the call, and an update
\* or toggle keeps createdAt and stamps updatedAt with the time of the call.
C16_Timestamps ==
  /\ [](\A i \in DOMAIN Records(port.store) :
          Date_new(Records(port.store)[i].updatedAt) >= Date_new(Records(port.store)[i].createdAt))
  /\ [](\A t \in Handed : t.updatedAt >= t.createdAt)
  /\ [][port'.ret.op = "create" /\ port'.ret.err = "none" =>
          port'.ret.val.createdAt = port.now /\ port'.ret.val.updatedAt = port.now]_vars
  /\ [][port'.ret.op = "update" /\ port'.ret.err = "none" =>
          /\ port'.ret.val.createdAt = port.held.createdAt
          /\ port'.ret.val.updatedAt = port.now
          /\ port'.ret.val.updatedAt >= port.held.updatedAt]_vars

C16_Witness ==
  /\ port.ret.op = "update" /\ port.ret.err = "none"
  /\ port.ret.val.completed
  /\ port.ret.val.createdAt = 0 /\ port.ret.val.updatedAt = 1
  /\ port.store[1] = JSON_stringify(toJSON(port.ret.val))


\* ------------------------------------------------- deadline derivation
\* the calendar date the user's clock shows, and the whole days from it
\* to the end date
currentDate(v) == (v.now + v.tz) \div HoursPerDay

wholeDays(v) == v.endDate.day - currentDate(v)

\* C17: for a completed task both derivations give "Completed", whatever
\* the end date is, absent included.
C17_CompletedFirst ==
  /\ (view.completed /\ view.info # NotCalled) => view.info.text = "Completed"
  /\ (view.completed /\ view.status # NotCalled) => view.status.text = "Completed"


\* the class the day difference d falls into, with the number it shows
DayClass(d) ==
  IF d < 0 THEN [class |-> "overdue", n |-> -d]
  ELSE IF d = 0 THEN [class |-> "today", n |-> 0]
  ELSE IF d = 1 THEN [class |-> "tomorrow", n |-> 1]
  ELSE IF d <= 3 THEN [class |-> "near", n |-> d]
  ELSE IF d <= 7 THEN [class |-> "informational", n |-> d]
  ELSE [class |-> "neutral", n |-> d]

\* the class a badge shows
classOf(b) ==
  [class |-> IF b.type = "danger" THEN "overdue"
             ELSE IF b.text = "Due today" THEN "today"
             ELSE IF b.text = "Due tomorrow" THEN "tomorrow"
             ELSE IF b.type = "warning" /\ b.text = "Due in N days" THEN "near"
             ELSE IF b.type = "info" THEN "informational"
             ELSE IF b.type = "secondary" THEN "neutral"
             ELSE "none",
   n |-> b.n]

Open(v) == ~v.completed /\ v.endDate.kind = "valid"

\* C18: for a task that is not completed and has a valid end date, both
\* derivations show the class of (endDate - currentDate) in whole days:
\* overdue by -d below 0, today at 0, tomorrow at 1, near-term for 2..3,
\* informational for 4..7, neutral above 7.
C18_DayClasses ==
  /\ (Open(view) /\ view.info # NotCalled) => classOf(view.info) = DayClass(wholeDays(view))
  /\ (Open(view) /\ view.status # NotCalled) => classOf(view.status) = DayClass(wholeDays(view))


\* C19: both derivations return for every input, and for an end date that
\* cannot be parsed they return what they return for a task that is not
\* completed and has no end date: no status.
C19_Unparsable ==
  /\ (view.endDate.kind = "invalid" /\ view.info # NotCalled) =>
        view.info = getDeadlineInfo([view EXCEPT !.completed = FALSE, !.endDate.kind = "absent"])
  /\ (view.endDate.kind = "invalid" /\ view.status # NotCalled) =>
        view.status = getDeadlineStatus([view EXCEPT !.completed = FALSE, !.endDate.kind = "absent"])


\* ----------------------------------------------------- stale-cache toggle
\* C20: a toggle whose id was absent from the cache, once its forced
\* refresh and retried lookup have read a list that holds the id, goes on
\* to the port update; it fails as not found only when the id is absent
\* from the list read after the refresh.
C20_RetryFinds ==
  [][\A p \in Procs :
       (/\ procs[p].pc = "t_get" /\ procs'[p].pc # "t_get"
        /\ procs[p].rd.ok /\ has(procs[p].rd.val, procs[p].id))
         => procs'[p].pc = "t_find"]_vars


\* ----------------------------------------------------- stale-cache remove
\* C21: a delete whose id was absent from the cache, once its refresh has
\* put a list that holds the id into the cache, goes on to the port
\* delete; it fails as not found only when the id is still absent.
C21_RetryFinds ==
  [][\A p \in Procs :
       (/\ procs[p].pc = "d_f1ret" /\ procs'[p].pc # "d_f1ret"
        /\ has(tasks, procs[p].id) /\ has(storage, procs[p].id))
         => procs'[p].pc = "d_del"]_vars


\* ------------------------------------------------------ successful toggle
\* C22: a toggle that ends successfully has called the port update once
\* and that update has flipped the stored completed flag; the cache entry
\* of the id becomes the record the port returned, the others stay.
C22_ToggleFlips ==
  [][\A p \in Procs :
       (procs[p].pc = "t_ret" /\ procs'[p].pc = "idle")
         => /\ procs[p].nUpd = 1 /\ procs[p].nFlip = 1
            /\ Len(tasks') = Len(tasks)
            /\ \A i \in DOMAIN tasks :
                 tasks'[i] = IF tasks[i].id = procs[p].id THEN procs[p].rec ELSE tasks[i]]_vars


\* ------------------------------------------------- quiescent consistency
\* no handler is suspended, no timer is armed, nothing is pending
Quiescent == pendingOperations = {} /\ \A p \in Procs : procs[p].pc = "idle"

\* C23: once the first load has succeeded and while no port call has ever
\* failed, whenever nothing is in flight the ids in the cache are the ids
\* in storage.
C23_QuiescentIds ==
  (Quiescent /\ isInitialized /\ faults = 0) => Ids(tasks) = Ids(storage)


\* ------------------------------------------------------ the pending guard
\* the ids whose toggle or delete has started and not yet ended
InFlight == { procs[p].id : p \in {q \in Procs : procs[q].op \in {"toggle", "delete"}} }

\* C24: an id is in pendingOperations only while its toggle or delete is
\* running, every such operation ends, on the failure paths too, and then
\* the id is out of pendingOperations.
C24_PendingCleared ==
  /\ [](pendingOperations = InFlight)
  /\ \A id \in IdSet : (id \in pendingOperations) ~> (id \notin pendingOperations)

\* a delete whose write and whose recovery refresh both failed has ended
\* and left nothing pending
C24_Witness ==
  /\ last.op = "delete" /\ last.cause = "notfound" /\ ~last.clean
  /\ error = "fetch" /\ pendingOperations = {}


\* ----------------------------------------------------- no retried write
AfterWrite == {"t_ret", "t_rec", "t_recret", "d_ret", "d_rec", "d_recret"}

\* C25: one toggleTask call makes at most one port update and one
\* deleteTask call at most one port delete: the handler leaves its write
\* step once, to its success step or to its catch block, never comes back
\* to it, and after the write step it does not change storage.
C25_NoRetry ==
  /\ [](\A p \in Procs : procs[p].nUpd <= 1)
  /\ [][\A p \in Procs : procs'[p] # procs[p] =>
          /\ procs[p].pc = "t_upd" => procs'[p].pc \in {"t_ret", "t_rec"}
          /\ procs[p].pc = "d_del" => procs'[p].pc \in {"d_ret", "d_rec"}
          /\ procs[p].pc = "t_ret" => procs'[p].pc = "idle"
          /\ procs[p].pc = "d_ret" => procs'[p].pc = "idle"
          /\ procs[p].pc = "t_rec" => procs'[p].pc = "t_recret"
          /\ procs[p].pc = "d_rec" => procs'[p].pc = "d_recret"
          /\ procs[p].pc = "t_recret" => procs'[p].pc = "idle"
          /\ procs[p].pc = "d_recret" => procs'[p].pc = "idle"
          /\ procs[p].pc \in AfterWrite => storage' = storage]_vars

C25_Witness ==
  /\ last.op = "delete" /\ last.cause = "write" /\ last.outcome = "ok"
  /\ pendingOperations = {} /\ has(storage, last.id)


\* ------------------------------------------------------- reconcile frame
\* C26: when validateConsistency has got storedTasks and the cache holds
\* exactly the same ids, the cache stays as it is, whatever the fields of
\* the records are.
C26_SameIdsNoChange ==
  [][\A p \in Procs :
        /\ procs[p].pc \in {"v_read", "c_vc", "t_vc"}
        /\ procs'[p] # procs[p]
        /\ procs[p].rd.ok
        /\ Ids(tasks) = Ids(procs[p].rd.val)
        => tasks' = tasks]_vars


\* ------------------------------------------------ failing reconcile read
\* C27: when the findAll() of validateConsistency has failed, the step
\* that resumes it changes neither the cache nor the error nor the loading
\* flag, and a toggleTask that called it goes on to its lookup with the
\* entry the cache holds for the id, not to its catch block.
C27_ReadFailureAbsorbed ==
  [][\A p \in Procs :
        ( /\ procs[p].pc \in {"v_read", "c_vc", "t_vc"}
          /\ procs'[p] # procs[p]
          /\ ~procs[p].rd.ok )
        => /\ tasks' = tasks /\ error' = error /\ loading' = loading
           /\ pendingOperations' = pendingOperations
           /\ procs[p].pc = "t_vc" =>
                /\ procs'[p].pc = "t_vcret"
                /\ procs'[p].found = has(tasks, procs[p].id)
                /\ procs'[p].want = (has(tasks, procs[p].id) /\ ~flagOf(tasks, procs[p].id))
           /\ procs[p].pc # "t_vc" => procs'[p].pc = "idle"]_vars

\* C28: a toggleTask(id) or deleteTask(id) that returns at the pending guard
\* leaves storage, the cache, error, loading, pendingOperations and every
\* call in flight as they were, and id is still in pendingOperations, held
\* by the call that added it.
C28_DroppedCallFrame ==
  [][last'.outcome = "dropped"
       => /\ storage' = storage /\ tasks' = tasks
          /\ error' = error /\ loading' = loading
          /\ pendingOperations' = pendingOperations
          /\ isInitialized' = isInitialized
          /\ procs' = procs
          /\ last'.id \in pendingOperations'
          /\ \E p \in Procs : procs'[p].op \in {"toggle", "delete"}
                              /\ procs'[p].id = last'.id]_vars

C28_Witness ==
  /\ last.outcome = "dropped"
  /\ error # "none"
  /\ last.id \in pendingOperations

\* ------------------------------------------------------------- self-heal
\* an entry safeReadStorage can use: it has an id, a title and a boolean
\* completed
Readable(item) == item.id # 0 /\ item.title # "" /\ item.completed \in BOOLEAN

\* C29: a findAll() on a store that holds unreadable entries returns the
\* readable entries, each as its Task, in their stored order, and leaves
\* exactly those entries in storage: no readable entry is lost.
C29_SelfHeal ==
  [][port'.ret.op = "findAll" =>
       LET kept == SelectSeq(port.store, Readable)
       IN /\ port'.ret.err = "none"
          /\ Len(port'.all) = Len(kept)
          /\ \A i \in DOMAIN kept : JSON_stringify(toJSON(port'.all[i])) = kept[i]
          /\ port'.store = kept]_vars

\* ------------------------------------------------------ id and createdAt
\* the stored entry with this id, read back as findById reads it
StoredTask(store, id) == createTaskFromData(find(Records(store), id))

\* a call of UpdateTaskUseCase.execute that went through
Updated == port'.ret.op \in {"update", "execute"} /\ port'.ret.err = "none"

\* C30: no read, toggle, field update or delete changes the id or the
\* createdAt of a record. A record stored before and after a call other
\* than a create has the createdAt it had, the updated one included when
\* the caller's copy carries the stored createdAt; and the record a toggle
\* or field update through UpdateTaskUseCase.execute returns, and stores,
\* has the id and the createdAt of the record it was given.
C30_IdCreatedAtFixed ==
  /\ [][\A id \in PortIds :
          ( /\ port'.ret.op # "create"
            /\ has(Records(port.store), id) /\ has(Records(port'.store), id)
            /\ (Updated /\ id = port.held.id)
                 => StoredTask(port.store, id).createdAt = port.held.createdAt )
            => StoredTask(port'.store, id).createdAt = StoredTask(port.store, id).createdAt]_vars
  /\ [][Updated
          => /\ port'.ret.val.id = port.held.id
             /\ port'.ret.val.createdAt = port.held.createdAt
             /\ port'.held.id = port.held.id
             /\ port'.held.createdAt = port.held.createdAt
             /\ port'.ret.op = "update"
                  => /\ has(Records(port'.store), port.held.id)
                     /\ StoredTask(port'.store, port.held.id).id = port.held.id
                     /\ StoredTask(port'.store, port.held.id).createdAt
                          = port.held.createdAt]_vars

C30_Witness ==
  /\ port.ret.op = "update" /\ port.ret.err = "none"
  /\ port.now = 1
  /\ port.ret.val.endDate = "2024-06-12"
  /\ port.ret.val.completed
  /\ port.ret.val.updatedAt = 1 /\ port.ret.val.createdAt = 0
  /\ StoredTask(port.store, port.ret.id) = port.ret.val

====
